---- MODULE Spec2Model ----
(***************************************************************************)
(* A model of the composite routes of ms-travel-planner                    *)
(* (src/src/server.ts): the validation helpers and the request handlers,   *)
(* with the upstream calls of src/src/http-client.ts as asynchronous       *)
(* steps.  One behaviour is one incoming request: Init draws the request,  *)
(* the first action runs the handler up to its first await, and every      *)
(* later action is the completion of one upstream call followed by all     *)
(* the code that runs before the next await.                               *)
(*                                                                         *)
(* Strings are sequences of atoms.  An atom is one character, or a longer  *)
(* piece of text that holds no digit; every digit is an atom of its own,   *)
(* so that a search for "404" over the atoms is a search over the text.    *)
(***************************************************************************)
EXTENDS Integers, Sequences, FiniteSets, TLC

VARIABLES
    req,        \* the incoming request (never changes once drawn)
    pc,         \* where the route handler is: which await it is suspended at
    validation, \* create: one validateSegment invocation per segment
    seen,       \* what the upstreams answered to the reads of each invocation
    tasks,      \* the per-segment work of a Promise.all over segments.map
    values,     \* the array the Promise.all over the segments is filling
    local,      \* the handler's local variables that outlive an await, and
                \* `reads`: what its first await has received so far
    calls,      \* how many upstream calls of each kind were issued so far
    store,      \* what the itineraries service has persisted
    resp        \* the responses written to the client, in order

vars == <<req, pc, validation, seen, tasks, values, local, calls, store, resp>>

\* The longest segments list of a request or of a fetched itinerary.
MaxSegments == 2

-----------------------------------------------------------------------------
(* JavaScript values *)

Undefined == [t |-> "undefined"]
Null == [t |-> "null"]
Str(s) == [t |-> "string", v |-> s]
Arr(s) == [t |-> "array", v |-> s]

\* What `!x` negates: undefined, null and the empty string are falsy.
Truthy(x) ==
    CASE x.t \in {"undefined", "null"} -> FALSE
      [] x.t = "string" -> x.v # <<>>
      [] OTHER -> TRUE

\* String.prototype.includes
Includes(s, sub) ==
    \E i \in 1..(Len(s) - Len(sub) + 1) : SubSeq(s, i, i + Len(sub) - 1) = sub

DigitChar == [d \in 0..9 |->
    CASE d = 0 -> "0" [] d = 1 -> "1" [] d = 2 -> "2" [] d = 3 -> "3"
      [] d = 4 -> "4" [] d = 5 -> "5" [] d = 6 -> "6" [] d = 7 -> "7"
      [] d = 8 -> "8" [] d = 9 -> "9"]

\* A three-digit status code interpolated into a template string.
StatusDigits(n) ==
    <<DigitChar[n \div 100], DigitChar[(n \div 10) % 10], DigitChar[n % 10]>>

-----------------------------------------------------------------------------
(* services.ts: the three clients and their base addresses *)

DESTINATIONS_URL == <<"http://localhost:", "3", "0", "0", "1">>
PRICING_URL == <<"http://localhost:", "3", "0", "0", "2">>
ITINERARIES_URL == <<"http://localhost:", "3", "0", "0", "3">>

-----------------------------------------------------------------------------
(* http-client.ts *)

\* What an upstream can answer to one call.
ReplyOk(body) == [kind |-> "response", status |-> 200, body |-> body]
ReplyStatus(n) == [kind |-> "response", status |-> n, body |-> Undefined]
ReplyNetwork == [kind |-> "network"]
ReplyMalformed == [kind |-> "response", status |-> 200, body |-> [t |-> "malformed"]]

StatusText(n) ==
    CASE n = 404 -> <<"Not Found">>
      [] n = 500 -> <<"Internal Server Error">>
      [] n = 503 -> <<"Service Unavailable">>
      [] OTHER -> <<"Error">>

\* The outcome of an awaited call: a value, or a thrown Error with a message.
Returned(v) == [ok |-> TRUE, value |-> v]
Thrown(m) == [ok |-> FALSE, message |-> m]

\* `HTTP ${response.status}: ${response.statusText} from ${url}`
HttpErrorMessage(status, url) ==
    <<"HTTP ">> \o StatusDigits(status) \o <<": ">> \o StatusText(status)
        \o <<" from ">> \o url

\* HttpClient.get and HttpClient.post once the reply is in: fetch rejects on
\* a network failure, a non-2xx status throws the HTTP error, and
\* response.json() rejects on a body that is not JSON.
HttpResult(baseUrl, path, reply) ==
    IF reply.kind = "network" THEN Thrown(<<"fetch failed">>)
    ELSE IF ~(reply.status \in 200..299)
        THEN Thrown(HttpErrorMessage(reply.status, baseUrl \o path))
    ELSE IF reply.body.t = "malformed"
        THEN Thrown(<<"Unexpected end of JSON input">>)
    ELSE Returned(reply.body)

-----------------------------------------------------------------------------
(* Dates: new Date(string) and the comparison of two Dates *)

DigitVal(c) ==
    CASE c = "0" -> 0 [] c = "1" -> 1 [] c = "2" -> 2 [] c = "3" -> 3
      [] c = "4" -> 4 [] c = "5" -> 5 [] c = "6" -> 6 [] c = "7" -> 7
      [] c = "8" -> 8 [] c = "9" -> 9 [] OTHER -> -1

IsDigit(c) == DigitVal(c) >= 0

\* Days from 1970-01-01 to the civil date y-m-d (proleptic Gregorian).
DaysFromCivil(y, m, d) ==
    LET yy == IF m <= 2 THEN y - 1 ELSE y
        era == yy \div 400
        yoe == yy - era * 400
        mp == IF m > 2 THEN m - 3 ELSE m + 9
        doy == (153 * mp + 2) \div 5 + d - 1
        doe == yoe * 365 + yoe \div 4 - yoe \div 100 + doy
    IN era * 146097 + doe - 719468

\* Instants are counted in whole minutes since the epoch, not milliseconds:
\* the strings read here carry no seconds, and the millisecond count of a
\* date of this century does not fit the model checker's integers.
MsPerMinute == 1000 * 60
MinutesPerDay == (1000 * 60 * 60 * 24) \div MsPerMinute

\* The day of a date YYYY-MM-DD in minutes since the epoch: <<minutes>>, or
\* <<>> when s is no such date.
DayStart(s) ==
    IF /\ Len(s) = 10
       /\ s[5] = "-" /\ s[8] = "-"
       /\ \A i \in {1, 2, 3, 4, 6, 7, 9, 10} : IsDigit(s[i])
    THEN LET y == DigitVal(s[1]) * 1000 + DigitVal(s[2]) * 100
                    + DigitVal(s[3]) * 10 + DigitVal(s[4])
             m == DigitVal(s[6]) * 10 + DigitVal(s[7])
             d == DigitVal(s[9]) * 10 + DigitVal(s[10])
         IN IF m \in 1..12 /\ d \in 1..31
            THEN <<DaysFromCivil(y, m, d) * MinutesPerDay>>
            ELSE <<>>
    ELSE <<>>

\* new Date(s).getTime() for a date-only string YYYY-MM-DD, which is read as
\* midnight UTC, and for a date and time YYYY-MM-DDTHH:mmZ: <<minutes>>, or
\* <<>> for NaN (an Invalid Date) when s is anything else.
DateTime(s) ==
    IF Len(s) = 10 THEN DayStart(s)
    ELSE IF /\ Len(s) = 17
            /\ s[11] = "T" /\ s[14] = ":" /\ s[17] = "Z"
            /\ \A i \in {12, 13, 15, 16} : IsDigit(s[i])
            /\ DayStart(SubSeq(s, 1, 10)) # <<>>
    THEN LET h == DigitVal(s[12]) * 10 + DigitVal(s[13])
             mi == DigitVal(s[15]) * 10 + DigitVal(s[16])
         IN IF h \in 0..23 /\ mi \in 0..59
            THEN <<DayStart(SubSeq(s, 1, 10))[1] + h * 60 + mi>>
            ELSE <<>>
    ELSE <<>>

DateLess(a, b) == a # <<>> /\ b # <<>> /\ a[1] < b[1]

\* `end <= start` on two Dates: false as soon as either is NaN.
DateLessOrEqual(a, b) == a # <<>> /\ b # <<>> /\ a[1] <= b[1]

-----------------------------------------------------------------------------
(* server.ts: the validation helpers *)

CityPath(cityId) == <<"/cities/">> \o cityId

\* validateCityExists once the read is in: the result object, or a throw.
ValidateCityExists(cityId, reply) ==
    LET r == HttpResult(DESTINATIONS_URL, CityPath(cityId), reply)
    IN IF r.ok THEN Returned([valid |-> TRUE, error |-> <<>>])
       ELSE IF Includes(r.message, <<"4", "0", "4">>)
           THEN Returned([valid |-> FALSE,
                          error |-> <<"City with ID '">> \o cityId
                                        \o <<"' does not exist">>])
       ELSE Thrown(r.message)

ClassObj(name) == [t |-> "object", class_name |-> Str(name)]

LodgingClassMatchesStringsOnly(lc, lodgingClass) ==
    lc.t = "string" /\ lc.v = lodgingClass

\* The predicate of classes.some(...)
LodgingClassMatches(lc, lodgingClass) ==
    IF lc.t = "string" THEN lc.v = lodgingClass
    ELSE lc.class_name = Str(lodgingClass)

\* validateLodgingClass once the read is in.  A body that is no array has no
\* `some` to call, which throws a TypeError.
ValidateLodgingClass(lodgingClass, reply) ==
    LET r == HttpResult(PRICING_URL, <<"/lodging-classes">>, reply)
    IN IF ~r.ok THEN Thrown(r.message)
       ELSE IF r.value.t # "array"
           THEN Thrown(<<"classes.some is not a function">>)
       ELSE IF \E i \in 1..Len(r.value.v) :
                   LodgingClassMatches(r.value.v[i], lodgingClass)
           THEN Returned([valid |-> TRUE, error |-> <<>>])
       ELSE Returned([valid |-> FALSE,
                      error |-> <<"Lodging class '">> \o lodgingClass
                                    \o <<"' does not exist">>])

\* One invocation of validateSegment: suspended at the city read, suspended
\* at the lodging-classes read, resolved with its errors, or rejected.
Validating(at, errors) ==
    [pc |-> at, errors |-> errors, valid |-> FALSE, message |-> <<>>]
Rejected(message) ==
    [pc |-> "rejected", errors |-> <<>>, valid |-> FALSE, message |-> message]

\* Line 88
ValidationResult(errors) ==
    [pc |-> "resolved", errors |-> errors, valid |-> Len(errors) = 0,
     message |-> <<>>]

\* Lines 71-88: the presence checks of the dates, the date range, the result.
ValidateDates(segment, errors) ==
    LET e1 == IF ~Truthy(segment.start_date)
              THEN Append(errors, <<"Segment missing start_date">>) ELSE errors
        e2 == IF ~Truthy(segment.end_date)
              THEN Append(e1, <<"Segment missing end_date">>) ELSE e1
        e3 == IF /\ Truthy(segment.start_date) /\ Truthy(segment.end_date)
                 /\ DateLessOrEqual(DateTime(segment.end_date.v),
                                    DateTime(segment.start_date.v))
              THEN Append(e2, <<"end_date must be after start_date">>) ELSE e2
    IN ValidationResult(e3)

ValidateLodgingShortCircuit(segment, errors) ==
    IF errors # <<>> THEN ValidationResult(errors)
    ELSE IF ~Truthy(segment.lodging_class)
    THEN ValidateDates(segment, Append(errors, <<"Segment missing lodging_class">>))
    ELSE Validating("lodging", errors)

\* Lines 62-69 up to the await: a missing lodging_class is an error and the
\* function runs on to the dates, a present one starts the read.
ValidateLodging(segment, errors) ==
    IF ~Truthy(segment.lodging_class)
    THEN ValidateDates(segment, Append(errors, <<"Segment missing lodging_class">>))
    ELSE Validating("lodging", errors)

\* Lines 53-56 with the read started whether or not city_id is there.
ValidateSegmentStartAlwaysReads(segment) ==
    Validating("city", IF ~Truthy(segment.city_id)
                       THEN <<<<"Segment missing city_id">>>> ELSE <<>>)

\* Lines 51-60 up to the await.
ValidateSegmentStart(segment) ==
    IF ~Truthy(segment.city_id)
    THEN ValidateLodging(segment, <<<<"Segment missing city_id">>>>)
    ELSE Validating("city", <<>>)

\* Lines 56-59 after the await of validateCityExists.
ValidateSegmentAfterCity(segment, v, reply) ==
    LET r == ValidateCityExists(segment.city_id.v, reply)
    IN IF ~r.ok THEN Rejected(r.message)
       ELSE ValidateLodging(segment,
                IF ~r.value.valid THEN Append(v.errors, r.value.error)
                ELSE v.errors)

\* Lines 65-68 after the await of validateLodgingClass.
ValidateSegmentAfterLodging(segment, v, reply) ==
    LET r == ValidateLodgingClass(segment.lodging_class.v, reply)
    IN IF ~r.ok THEN Rejected(r.message)
       ELSE ValidateDates(segment,
                IF ~r.value.valid THEN Append(v.errors, r.value.error)
                ELSE v.errors)

-----------------------------------------------------------------------------
(* The requests and the upstream replies the model draws from *)

Paris == <<"paris">>
C404 == <<"c", "4", "0", "4">>
Standard == <<"standard">>
Penthouse == <<"penthouse">>
Jan01 == <<"2", "0", "2", "4", "-", "0", "1", "-", "0", "1">>
Jan04 == <<"2", "0", "2", "4", "-", "0", "1", "-", "0", "4">>
Jan04Noon == Jan04 \o <<"T", "1", "2", ":", "0", "0", "Z">>
Soon == <<"soon">>

Segment(c, l, s, e) ==
    [t |-> "object", city_id |-> c, lodging_class |-> l,
     start_date |-> s, end_date |-> e]

\* The inputs of one validateSegment call.
SegmentValues ==
    {Segment(c, l, s, e) :
        c \in {Undefined, Str(<<>>), Str(Paris), Str(C404)},
        l \in {Undefined, Str(Standard), Str(Penthouse)},
        s \in {Undefined, Str(Jan01), Str(Jan04), Str(Soon)},
        e \in {Undefined, Str(Jan01), Str(Jan04)}}

\* The segments of a create request: one that passes when its city and its
\* class exist, and one with no class and no night, for each of two cities.
RequestSegmentValues ==
    {Segment(Str(c), le[1], Str(Jan01), le[2]) :
        c \in {Paris, C404},
        le \in {<<Str(Standard), Str(Jan04)>>, <<Undefined, Str(Jan01)>>}}

SeqsUpTo(S, n) == UNION {[1..k -> S] : k \in 0..n}

Itinerary == [t |-> "object", name |-> <<"trip">>]

CityBody ==
    [t |-> "object", name |-> <<"Paris">>, country_code |-> <<"FR">>,
     currency |-> <<"EUR">>]

\* Every failure of a read or a write.
FailureReplies == {ReplyStatus(404), ReplyStatus(500), ReplyNetwork, ReplyMalformed}

CityReplies == {ReplyOk(CityBody)} \cup FailureReplies

LodgingLists ==
    {<<>>, <<Str(Standard)>>, <<ClassObj(Standard)>>,
     <<Str(Penthouse), ClassObj(Standard)>>, <<ClassObj(Penthouse)>>}

LodgingReplies ==
    {ReplyOk(Arr(l)) : l \in LodgingLists} \cup {ReplyOk(Null)}
    \cup {ReplyStatus(404), ReplyStatus(500)}

CallKinds ==
    {"GET /cities/:id", "GET /lodging-classes", "GET /rates", "GET /cities",
     "GET /seasons", "GET /itineraries/:id", "GET /itineraries/:id/segments",
     "POST /itineraries", "POST /itineraries/:id/segments", "DELETE"}

Issue(c, kind, n) == [c EXCEPT ![kind] = @ + n]

Count(S) == Cardinality(S)

-----------------------------------------------------------------------------
(* Promise.all *)

Hole == [t |-> "hole"]
Holes(n) == [i \in 1..n |-> Hole]

\* The place of a rejected promise in the array of a join.
FailedRead == [t |-> "failed"]

PromiseAllCompletionOrder(vals, index, value) ==
    LET free == {i \in 1..Len(vals) : vals[i] = Hole}
        first == CHOOSE i \in free : \A j \in free : i <= j
    IN [vals EXCEPT ![first] = value]

\* Promise.all stores each fulfilment value at the index of its promise.
PromiseAllResolve(vals, index, value) == [vals EXCEPT ![index] = value]

\* A join that is never released.
AllFilledNever(vals) == FALSE

AllFilled(vals) == \A i \in 1..Len(vals) : vals[i] # Hole

-----------------------------------------------------------------------------
(* Responses *)

Response(status, body) == [status |-> status, body |-> body]

\* res.status(500).json({ error: error.message || fallback })
ErrorResponse(message, fallback) ==
    Response(500, [error |-> IF message # <<>> THEN message ELSE fallback])

Fallback(op) ==
    CASE op = "quotes" -> <<"Failed to calculate quotes">>
      [] op = "fetch" -> <<"Failed to fetch composite itinerary">>
      [] op = "destinations" -> <<"Failed to fetch destinations">>
      [] OTHER -> <<"Failed to create composite itinerary">>


-----------------------------------------------------------------------------
(* validateSegment as a running invocation *)

SegmentsOf(r) == r.segments.v

\* Lines 56 and 65 with both reads of a segment started together.
IssueValidationReadsTogether(c, v) ==
    Issue(Issue(c, "GET /cities/:id", Count({i \in DOMAIN v : v[i].pc = "city"})),
          "GET /lodging-classes",
          Count({i \in DOMAIN v : v[i].pc \in {"city", "lodging"}}))

\* The upstream reads a fresh set of invocations has started.
IssueValidationReads(c, v) ==
    Issue(Issue(c, "GET /cities/:id", Count({i \in DOMAIN v : v[i].pc = "city"})),
          "GET /lodging-classes", Count({i \in DOMAIN v : v[i].pc = "lodging"}))

\* `.then(result => ({ index, ...result }))`
Tagged(i, v) == [index |-> i - 1, valid |-> v.valid, errors |-> v.errors]

\* How a reply reads: "ok", "404" for a not-found, "500" for any other
\* refusal, "network" or "malformed".
ReplyKind(reply) ==
    IF reply.kind = "network" THEN "network"
    ELSE IF reply.status = 404 THEN "404"
    ELSE IF reply.status # 200 THEN "500"
    ELSE IF reply.body.t = "malformed" THEN "malformed"
    ELSE "ok"

\* How a reply to the lodging-classes read reads: "listed" or "unlisted"
\* when it is a list, by whether the class is named in it.
LodgingReplyKind(reply, lodgingClass) ==
    IF ReplyKind(reply) # "ok" THEN ReplyKind(reply)
    ELSE IF reply.body.t # "array" THEN "no list"
    ELSE IF lodgingClass \in
                {reply.body.v[i].v : i \in {j \in 1..Len(reply.body.v) :
                                               reply.body.v[j].t = "string"}}
                \cup {reply.body.v[i].class_name.v :
                        i \in {j \in 1..Len(reply.body.v) :
                                  reply.body.v[j].t = "object"}}
        THEN "listed"
    ELSE "unlisted"

NothingSeen == [city |-> "none", lodging |-> "none"]

\* A direct call of validateSegment, up to its first await.
ValidateSegmentCall ==
    /\ pc = "received"
    /\ req.op = "validate"
    /\ validation' = [i \in {1} |-> ValidateSegmentStart(SegmentsOf(req)[i])]
    /\ seen' = [i \in {1} |-> NothingSeen]
    /\ calls' = IssueValidationReads(calls, validation')
    /\ pc' = "called"
    /\ UNCHANGED <<req, tasks, values, local, store, resp>>

-----------------------------------------------------------------------------
(* POST /composite/itineraries *)

\* `segments && Array.isArray(segments) && segments.length > 0`
HasSegments(segments) ==
    Truthy(segments) /\ segments.t = "array" /\ Len(segments.v) > 0

DetailsRenumbered(invalidSegments) ==
    [k \in 1..Len(invalidSegments) |->
        [segment_index |-> k - 1, errors |-> invalidSegments[k].errors]]

\* Lines 186-189
Details(invalidSegments) ==
    [k \in 1..Len(invalidSegments) |->
        [segment_index |-> invalidSegments[k].index,
         errors |-> invalidSegments[k].errors]]

IsInvalid(r) == ~r.valid

InvalidSegmentsFirstOnly(validationResults) ==
    SelectSeq(SubSeq(validationResults, 1, 1), IsInvalid)

\* Line 182
InvalidSegments(validationResults) == SelectSeq(validationResults, IsInvalid)

\* Lines 182-195, with the validation results in: the 400 of a failed
\* validation, or the write of the itinerary.
CreateAfterValidation(validationResults, c) ==
    IF Len(InvalidSegments(validationResults)) > 0
    THEN /\ resp' = Append(resp, Response(400,
                [error |-> <<"Segment validation failed">>,
                 details |-> Details(InvalidSegments(validationResults))]))
         /\ pc' = "done"
         /\ calls' = c
    ELSE /\ pc' = "creatingItinerary"
         /\ calls' = Issue(c, "POST /itineraries", 1)
         /\ resp' = resp

MissingItineraryAndSegments(body) ==
    ~Truthy(body.itinerary) /\ ~HasSegments(body.segments)

\* Line 170
MissingItinerary(body) == ~Truthy(body.itinerary)

\* Lines 166-195 up to the first await.
CreateReceived ==
    /\ pc = "received"
    /\ req.op = "create"
    /\ IF MissingItinerary(req)
       THEN /\ resp' = Append(resp, Response(400, [error |-> <<"Missing itinerary data">>]))
            /\ pc' = "done"
            /\ UNCHANGED <<validation, seen, values, calls>>
       ELSE IF HasSegments(req.segments)
       THEN LET n == Len(SegmentsOf(req))
                v == [i \in 1..n |-> ValidateSegmentStart(SegmentsOf(req)[i])]
                vals == [i \in 1..n |->
                            IF v[i].pc = "resolved" THEN Tagged(i, v[i]) ELSE Hole]
            IN /\ validation' = v
               /\ seen' = [i \in 1..n |-> NothingSeen]
               /\ values' = vals
               /\ IF AllFilled(vals)
                  THEN CreateAfterValidation(vals, IssueValidationReads(calls, v))
                  ELSE /\ pc' = "validating"
                       /\ calls' = IssueValidationReads(calls, v)
                       /\ resp' = resp
       ELSE /\ pc' = "creatingItinerary"
            /\ calls' = Issue(calls, "POST /itineraries", 1)
            /\ UNCHANGED <<validation, seen, values, resp>>
    /\ UNCHANGED <<req, tasks, local, store>>

CatchBlockDeletes(c) == Issue(c, "DELETE", 1)

\* What the catch block of lines 211-214 asks of the upstreams: nothing.
CatchBlockCalls(c) == c

\* One invocation of validateSegment moves on to v; when the handler still
\* awaits the Promise.all of line 176, a rejection takes it to the catch
\* block and the last fulfilment takes it on to line 182.
ValidationStep(i, v) ==
    LET c == IssueValidationReads(calls, [j \in {i} |-> v])
        vals == IF v.pc = "resolved" /\ req.op = "create"
                THEN PromiseAllResolve(values, i, Tagged(i, v))
                ELSE values
    IN /\ validation' = [validation EXCEPT ![i] = v]
       /\ values' = vals
       /\ IF pc # "validating"
          THEN calls' = c /\ UNCHANGED <<pc, resp>>
          ELSE IF v.pc = "rejected"
          THEN /\ resp' = Append(resp, ErrorResponse(v.message, Fallback(req.op)))
               /\ pc' = "done"
               /\ calls' = CatchBlockCalls(c)
          ELSE IF AllFilled(vals)
          THEN CreateAfterValidation(vals, c)
          ELSE calls' = c /\ UNCHANGED <<pc, resp>>
       /\ UNCHANGED <<req, tasks, local, store>>

\* The read of validateCityExists completes.
CityReadDone(i) ==
    /\ i \in DOMAIN validation
    /\ validation[i].pc = "city"
    /\ \E reply \in CityReplies :
        /\ ValidationStep(i, ValidateSegmentAfterCity(SegmentsOf(req)[i],
                                                      validation[i], reply))
        /\ seen' = [seen EXCEPT ![i].city = ReplyKind(reply)]

\* The read of validateLodgingClass completes.
LodgingReadDone(i) ==
    /\ i \in DOMAIN validation
    /\ validation[i].pc = "lodging"
    /\ \E reply \in LodgingReplies :
        /\ ValidationStep(i, ValidateSegmentAfterLodging(SegmentsOf(req)[i],
                                                         validation[i], reply))
        /\ seen' = [seen EXCEPT ![i].lodging =
                        LodgingReplyKind(reply, SegmentsOf(req)[i].lodging_class.v)]

\* What the itineraries service answers to a write it accepts.
CreatedItinerary(itinerary) ==
    [t |-> "object", id |-> <<"it-", DigitChar[Len(store.itineraries) + 1]>>,
     name |-> itinerary.name]

CreatedSegment(path, segment) ==
    [t |-> "object", id |-> <<"seg-", DigitChar[Len(store.segments) + 1]>>,
     path |-> path, segment |-> segment]

WriteReplies(created) == {ReplyOk(created)} \cup FailureReplies

\* Line 202 with the id read off the request's itinerary, which has none.
SegmentsPathOfRequest(id) == <<"/itineraries/", "undefined", "/segments">>

\* `/itineraries/${createdItinerary.id}/segments`
SegmentsPath(id) == <<"/itineraries/">> \o id \o <<"/segments">>

\* Lines 207-210
CreatedResponse(createdItinerary, createdSegments) ==
    Response(201, [t |-> "object", id |-> createdItinerary.id,
                   name |-> createdItinerary.name, segments |-> createdSegments])

\* The write of line 195 completes; lines 197-210 up to the next await.
ItineraryWriteDone ==
    /\ pc = "creatingItinerary"
    /\ \E reply \in WriteReplies(CreatedItinerary(req.itinerary)) :
        LET r == HttpResult(ITINERARIES_URL, <<"/itineraries">>, reply)
        IN /\ store' = IF reply.kind = "response" /\ reply.status = 200
                          /\ reply.body.t = "object"
                       THEN [store EXCEPT !.itineraries = Append(@, reply.body)]
                       ELSE store
           /\ IF ~r.ok
              THEN /\ resp' = Append(resp, ErrorResponse(r.message, Fallback(req.op)))
                   /\ pc' = "done"
                   /\ calls' = CatchBlockCalls(calls)
                   /\ UNCHANGED <<tasks, values, local>>
              ELSE IF HasSegments(req.segments)
              THEN /\ local' = [local EXCEPT !.createdItinerary = r.value]
                   /\ tasks' = [i \in 1..Len(SegmentsOf(req)) |->
                                   [st |-> "pending", path |-> SegmentsPath(r.value.id),
                                    value |-> Undefined]]
                   /\ values' = Holes(Len(SegmentsOf(req)))
                   /\ calls' = Issue(calls, "POST /itineraries/:id/segments",
                                     Len(SegmentsOf(req)))
                   /\ pc' = "creatingSegments"
                   /\ resp' = resp
              ELSE /\ resp' = Append(resp, CreatedResponse(r.value, <<>>))
                   /\ local' = [local EXCEPT !.createdItinerary = r.value]
                   /\ pc' = "done"
                   /\ UNCHANGED <<tasks, values, calls>>
    /\ UNCHANGED <<req, validation, seen>>

\* One segment write of line 202 completes.
SegmentWriteDone(i) ==
    /\ req.op = "create"
    /\ i \in DOMAIN tasks
    /\ tasks[i].st = "pending"
    /\ \E reply \in WriteReplies(CreatedSegment(tasks[i].path, SegmentsOf(req)[i])) :
        LET r == HttpResult(ITINERARIES_URL, tasks[i].path, reply)
            vals == IF r.ok THEN PromiseAllResolve(values, i, r.value) ELSE values
        IN /\ store' = IF r.ok THEN [store EXCEPT !.segments = Append(@, r.value)]
                       ELSE store
           /\ tasks' = [tasks EXCEPT ![i].st = IF r.ok THEN "fulfilled" ELSE "rejected",
                                     ![i].value = IF r.ok THEN r.value ELSE @]
           /\ values' = vals
           /\ IF pc # "creatingSegments"
              THEN UNCHANGED <<pc, resp, calls>>
              ELSE IF ~r.ok
              THEN /\ resp' = Append(resp, ErrorResponse(r.message, Fallback(req.op)))
                   /\ pc' = "done"
                   /\ calls' = CatchBlockCalls(calls)
              ELSE IF AllFilled(vals)
              THEN /\ resp' = Append(resp, CreatedResponse(local.createdItinerary, vals))
                   /\ pc' = "done"
                   /\ calls' = calls
              ELSE UNCHANGED <<pc, resp, calls>>
    /\ UNCHANGED <<req, validation, seen, local>>

-----------------------------------------------------------------------------
(* Numbers of a quote.  A price is counted in hundredths, so that the       *)
(* decimal strings the pricing service sends are read exactly.              *)

\* parseFloat of a decimal string: the digits before the point and up to two
\* digits after it, in hundredths.
RECURSIVE WholePart(_, _)
WholePart(s, acc) ==
    IF s = <<>> \/ ~IsDigit(Head(s)) THEN acc
    ELSE WholePart(Tail(s), acc * 10 + DigitVal(Head(s)))

RECURSIVE AfterPoint(_)
AfterPoint(s) ==
    IF s = <<>> THEN <<>>
    ELSE IF Head(s) = "." THEN Tail(s)
    ELSE IF IsDigit(Head(s)) THEN AfterPoint(Tail(s))
    ELSE <<>>

ParseFloat(s) ==
    LET f == AfterPoint(s)
        d1 == IF Len(f) >= 1 /\ IsDigit(f[1]) THEN DigitVal(f[1]) ELSE 0
        d2 == IF Len(f) >= 2 /\ IsDigit(f[1]) /\ IsDigit(f[2]) THEN DigitVal(f[2]) ELSE 0
    IN WholePart(s, 0) * 100 + d1 * 10 + d2

\* Math.floor(a / b)
FloorDiv(a, b) == a \div b

\* Math.ceil(a / b) for b > 0
CeilDiv(a, b) == IF a % b = 0 THEN a \div b ELSE a \div b + 1

\* Lines 238-240
Nights(segment) ==
    CeilDiv(DateTime(segment.end_date.v)[1] - DateTime(segment.start_date.v)[1],
            MinutesPerDay)

\* Lines 243-244 with the last rate of the list in place of the first.
PricePerNightOfLast(rates) ==
    IF rates.t = "array" /\ Len(rates.v) > 0
    THEN ParseFloat(rates.v[Len(rates.v)].price_per_night)
    ELSE 0

\* Lines 243-244
PricePerNight(rates) ==
    IF rates.t = "array" /\ Len(rates.v) > 0
    THEN ParseFloat(rates.v[1].price_per_night)
    ELSE 0

\* Lines 237-255
SegmentQuote(segment, city, rates) ==
    [segment_id |-> segment.id,
     city_name |-> city.name,
     lodging_class |-> segment.lodging_class,
     nights |-> Nights(segment),
     price_per_night |-> PricePerNight(rates),
     currency |-> city.currency,
     total |-> PricePerNight(rates) * Nights(segment)]

\* Lines 110-116
EnrichedSegment(segment, city, rates) ==
    [segment |-> segment,
     city_name |-> city.name,
     country_code |-> city.country_code,
     currency |-> city.currency,
     rates |-> IF Truthy(rates) THEN rates ELSE Arr(<<>>)]

RECURSIVE SumTotals(_)
\* segmentQuotes.reduce((sum, quote) => sum + quote.total, 0)
SumTotals(quotes) ==
    IF quotes = <<>> THEN 0
    ELSE SumTotals(SubSeq(quotes, 1, Len(quotes) - 1)) + quotes[Len(quotes)].total

-----------------------------------------------------------------------------
(* What the upstreams hold for the reads of the two itinerary routes *)

StoredSegment(id, c, l, s, e) ==
    [t |-> "object", id |-> id, city_id |-> Str(c), lodging_class |-> Str(l),
     start_date |-> Str(s), end_date |-> Str(e)]

StoredSegmentValues ==
    {StoredSegment(<<"seg-", "1">>, Paris, Standard, Jan01, Jan04),
     StoredSegment(<<"seg-", "2">>, C404, Penthouse, Jan04, Jan04Noon)}

Rate(p) == [t |-> "object", price_per_night |-> p]
Price100 == <<"1", "0", "0", ".", "0", "0">>
Price89 == <<"8", "9", ".", "5", "0">>

RatesReplies ==
    {ReplyOk(Arr(<<>>)), ReplyOk(Arr(<<Rate(Price100)>>)),
     ReplyOk(Arr(<<Rate(Price89), Rate(Price100)>>)), ReplyOk(Null),
     ReplyStatus(500)}

\* The replies to the city read of a segment of a stored itinerary.
SegmentCityReplies == {ReplyOk(CityBody), ReplyStatus(404)}

SegmentListReplies ==
    {ReplyOk(Arr(l)) : l \in SeqsUpTo(StoredSegmentValues, MaxSegments)}
    \cup {ReplyOk(Null)} \cup {ReplyStatus(404), ReplyStatus(500), ReplyNetwork}

ItineraryId == <<"it-", "7">>

\* `/rates?city_id=${segment.city_id}&lodging_class=${segment.lodging_class}`
RatesPath(segment) ==
    <<"/rates?city_id=">> \o segment.city_id.v \o <<"&lodging_class=">>
        \o segment.lodging_class.v

-----------------------------------------------------------------------------
(* The per-segment join of city and rates: lines 103-118 and 230-257 *)

\* Lines 105-108 with the rates read left out.
StartSegmentReadsCityOnly(segments) ==
    /\ tasks' = [i \in 1..Len(segments) |-> [st |-> "pending", pair |-> Holes(2)]]
    /\ values' = Holes(Len(segments))
    /\ calls' = Issue(calls, "GET /cities/:id", Len(segments))

\* segments.map(async segment => ...) up to the await of each inner join:
\* every segment starts its city read and its rates read.
StartSegmentReads(segments) ==
    /\ tasks' = [i \in 1..Len(segments) |-> [st |-> "pending", pair |-> Holes(2)]]
    /\ values' = Holes(Len(segments))
    /\ calls' = Issue(Issue(calls, "GET /cities/:id", Len(segments)),
                      "GET /rates", Len(segments))

\* Lines 259-265
QuotesResponse(itineraryId, segmentQuotes) ==
    Response(200, [itinerary_id |-> itineraryId, total |-> SumTotals(segmentQuotes),
                   segments |-> segmentQuotes])

\* Lines 120-123
ItineraryResponse(itinerary, enrichedSegments) ==
    Response(200, [t |-> "object", id |-> itinerary.id, name |-> itinerary.name,
                   segments |-> enrichedSegments])

\* Lines 225-227
QuotesGuardMissing(segments) == FALSE

NoSegments(segments) == Len(segments) = 0

\* One read of a segment's inner join completes (k = 1 the city, k = 2 the
\* rates).  The second fulfilment runs the rest of the map callback; the
\* last callback to return runs the handler on to its response.
SegmentReadDone(i, k) ==
    /\ req.op \in {"quotes", "fetch"}
    /\ i \in DOMAIN tasks
    /\ tasks[i].pair[k] = Hole
    /\ \E reply \in IF k = 1 THEN SegmentCityReplies ELSE RatesReplies :
        LET segment == local.segments[i]
            r == IF k = 1
                 THEN HttpResult(DESTINATIONS_URL, CityPath(segment.city_id.v), reply)
                 ELSE HttpResult(PRICING_URL, RatesPath(segment), reply)
            pair == IF r.ok THEN PromiseAllResolve(tasks[i].pair, k, r.value)
                    ELSE PromiseAllResolve(tasks[i].pair, k, FailedRead)
            first == tasks[i].st = "pending"
            done == first /\ r.ok /\ AllFilled(pair)
            vals == IF done
                    THEN PromiseAllResolve(values, i,
                            IF req.op = "quotes"
                            THEN SegmentQuote(segment, pair[1], pair[2])
                            ELSE EnrichedSegment(segment, pair[1], pair[2]))
                    ELSE values
        IN /\ tasks' = [tasks EXCEPT ![i] =
                            [st |-> IF first /\ ~r.ok THEN "rejected"
                                    ELSE IF done THEN "fulfilled" ELSE @.st,
                             pair |-> pair]]
           /\ values' = vals
           /\ IF pc # "enriching" \/ ~first
              THEN UNCHANGED <<pc, resp>>
              ELSE IF ~r.ok
              THEN /\ resp' = Append(resp, ErrorResponse(r.message, Fallback(req.op)))
                   /\ pc' = "done"
              ELSE IF AllFilled(vals)
              THEN /\ resp' = Append(resp,
                        IF req.op = "quotes" THEN QuotesResponse(req.id, vals)
                        ELSE ItineraryResponse(local.itinerary, vals))
                   /\ pc' = "done"
              ELSE UNCHANGED <<pc, resp>>
    /\ UNCHANGED <<req, validation, seen, local, calls, store>>

-----------------------------------------------------------------------------
(* GET /composite/quotes/:itinerary_id *)

\* Lines 218-223 up to the await.
QuotesReceived ==
    /\ pc = "received"
    /\ req.op = "quotes"
    /\ calls' = Issue(calls, "GET /itineraries/:id/segments", 1)
    /\ pc' = "fetchingSegments"
    /\ UNCHANGED <<req, validation, seen, tasks, values, local, store, resp>>

\* The read of line 223 completes; lines 225-257 up to the next await.
SegmentListDone ==
    /\ pc = "fetchingSegments"
    /\ req.op = "quotes"
    /\ \E reply \in SegmentListReplies :
        LET r == HttpResult(ITINERARIES_URL, SegmentsPath(req.id), reply)
        IN IF ~r.ok \/ r.value.t # "array"
           THEN /\ resp' = Append(resp, ErrorResponse(
                        IF ~r.ok THEN r.message
                        ELSE <<"Cannot read properties of null (reading 'length')">>,
                        Fallback(req.op)))
                /\ pc' = "done"
                /\ local' = [local EXCEPT !.reads = <<FailedRead>>]
                /\ UNCHANGED <<tasks, values, calls>>
           ELSE IF NoSegments(r.value.v)
           THEN /\ resp' = Append(resp, Response(200, [total |-> 0, segments |-> <<>>]))
                /\ pc' = "done"
                /\ local' = [local EXCEPT !.segments = r.value.v, !.reads = <<r.value>>]
                /\ UNCHANGED <<tasks, values, calls>>
           ELSE /\ local' = [local EXCEPT !.segments = r.value.v, !.reads = <<r.value>>]
                /\ StartSegmentReads(r.value.v)
                /\ IF AllFilled(values')
                   THEN /\ resp' = Append(resp, QuotesResponse(req.id, values'))
                        /\ pc' = "done"
                   ELSE /\ pc' = "enriching"
                        /\ resp' = resp
    /\ UNCHANGED <<req, validation, seen, store>>

-----------------------------------------------------------------------------
(* GET /composite/itineraries/:id *)

ItineraryPath(id) == <<"/itineraries/">> \o id

StoredItinerary == [t |-> "object", id |-> ItineraryId, name |-> <<"trip">>]

ItineraryReplies ==
    {ReplyOk(StoredItinerary), ReplyStatus(404), ReplyStatus(500), ReplyNetwork}

\* Lines 92-100 up to the await: both reads of the outer join start.
FetchReceived ==
    /\ pc = "received"
    /\ req.op = "fetch"
    /\ calls' = Issue(Issue(calls, "GET /itineraries/:id", 1),
                      "GET /itineraries/:id/segments", 1)
    /\ local' = [local EXCEPT !.reads = Holes(2)]
    /\ pc' = "fetchingItinerary"
    /\ UNCHANGED <<req, validation, seen, tasks, values, store, resp>>

\* One read of the outer join completes (k = 1 the itinerary, k = 2 its
\* segment list); the second fulfilment runs lines 102-118 up to the await.
OuterReadDone(k) ==
    /\ req.op = "fetch"
    /\ pc \in {"fetchingItinerary", "done"}
    /\ Len(local.reads) = 2
    /\ local.reads[k] = Hole
    /\ \E reply \in IF k = 1 THEN ItineraryReplies ELSE SegmentListReplies :
        LET r == IF k = 1
                 THEN HttpResult(ITINERARIES_URL, ItineraryPath(req.id), reply)
                 ELSE HttpResult(ITINERARIES_URL, SegmentsPath(req.id), reply)
            pair == IF r.ok THEN PromiseAllResolve(local.reads, k, r.value)
                    ELSE PromiseAllResolve(local.reads, k, FailedRead)
        IN IF pc # "fetchingItinerary"
           THEN /\ local' = [local EXCEPT !.reads = pair]
                /\ UNCHANGED <<pc, resp, tasks, values, calls>>
           ELSE IF ~r.ok
           THEN /\ resp' = Append(resp, ErrorResponse(r.message, Fallback(req.op)))
                /\ pc' = "done"
                /\ local' = [local EXCEPT !.reads = pair]
                /\ UNCHANGED <<tasks, values, calls>>
           ELSE IF ~AllFilled(pair)
           THEN /\ local' = [local EXCEPT !.reads = pair]
                /\ UNCHANGED <<pc, resp, tasks, values, calls>>
           ELSE IF pair[2].t # "array"
           THEN /\ resp' = Append(resp, ErrorResponse(
                        <<"Cannot read properties of null (reading 'map')">>,
                        Fallback(req.op)))
                /\ pc' = "done"
                /\ local' = [local EXCEPT !.reads = [pair EXCEPT ![2] = FailedRead]]
                /\ UNCHANGED <<tasks, values, calls>>
           ELSE /\ local' = [local EXCEPT !.reads = pair, !.itinerary = pair[1],
                                          !.segments = pair[2].v]
                /\ StartSegmentReads(pair[2].v)
                /\ IF AllFilled(values')
                   THEN /\ resp' = Append(resp, ItineraryResponse(pair[1], values'))
                        /\ pc' = "done"
                   ELSE /\ pc' = "enriching"
                        /\ resp' = resp
    /\ UNCHANGED <<req, validation, seen, store>>

-----------------------------------------------------------------------------
(* GET /composite/destinations *)

\* The longest city list and season list the destinations service returns.
MaxListed == 2

City(id) == [t |-> "object", id |-> id]
Season(id, cityId) == [t |-> "object", id |-> id, city_id |-> cityId]

CityValues == {City(<<"c", "1">>), City(<<"c", "2">>)}

SeasonValues ==
    {Season(<<"s", "1">>, <<"c", "1">>), Season(<<"s", "2">>, <<"c", "1">>),
     Season(<<"s", "3">>, <<"c", "2">>)}

\* A page as the upstream sends it: the bare array, or wrapped in {data}.
Pages(S) ==
    {Arr(l) : l \in SeqsUpTo(S, MaxListed)}
    \cup {[t |-> "object", data |-> Arr(l)] : l \in SeqsUpTo(S, MaxListed)}

PageReplies(S) ==
    {ReplyOk(b) : b \in Pages(S)} \cup {ReplyStatus(500), ReplyNetwork}

\* `response.data || response`
Unwrap(response) ==
    IF response.t = "object" /\ Truthy(response.data) THEN response.data
    ELSE response

RECURSIVE SeasonsByCity(_)
\* Lines 144-150: the reduce over the seasons, left to right.
SeasonsByCity(seasons) ==
    IF seasons = <<>> THEN <<>>
    ELSE LET acc == SeasonsByCity(SubSeq(seasons, 1, Len(seasons) - 1))
             season == seasons[Len(seasons)]
             known == {k \in DOMAIN acc : acc[k].key = season.city_id}
         IN IF known = {}
            THEN Append(acc, [key |-> season.city_id, list |-> <<season>>])
            ELSE [k \in DOMAIN acc |->
                    IF k \in known
                    THEN [key |-> acc[k].key, list |-> Append(acc[k].list, season)]
                    ELSE acc[k]]

\* Line 155 with the first group taken whatever the city.
SeasonsOfFirstGroup(byCity, id) ==
    IF byCity # <<>> THEN byCity[1].list ELSE <<>>

\* `seasonsByCity[city.id] || []`
SeasonsOf(byCity, id) ==
    IF \E k \in DOMAIN byCity : byCity[k].key = id
    THEN byCity[CHOOSE k \in DOMAIN byCity : byCity[k].key = id].list
    ELSE <<>>

\* Lines 153-156
EnrichedCities(cities, seasons) ==
    [i \in 1..Len(cities) |->
        [city |-> cities[i], seasons |-> SeasonsOf(SeasonsByCity(seasons), cities[i].id)]]

\* Lines 131-137 up to the await.
DestinationsReceived ==
    /\ pc = "received"
    /\ req.op = "destinations"
    /\ calls' = Issue(Issue(calls, "GET /cities", 1), "GET /seasons", 1)
    /\ local' = [local EXCEPT !.reads = Holes(2)]
    /\ pc' = "fetchingDestinations"
    /\ UNCHANGED <<req, validation, seen, tasks, values, store, resp>>

\* One read of the join completes (k = 1 the cities, k = 2 the seasons); the
\* second fulfilment runs lines 139-158.
PageReadDone(k) ==
    /\ req.op = "destinations"
    /\ pc \in {"fetchingDestinations", "done"}
    /\ Len(local.reads) = 2
    /\ local.reads[k] = Hole
    /\ \E reply \in IF k = 1 THEN PageReplies(CityValues) ELSE PageReplies(SeasonValues) :
        LET r == HttpResult(DESTINATIONS_URL,
                    IF k = 1 THEN <<"/cities?limit=", "1", "0", "0">>
                    ELSE <<"/seasons?limit=", "1", "0", "0">>, reply)
            pair == IF r.ok THEN PromiseAllResolve(local.reads, k, r.value)
                    ELSE PromiseAllResolve(local.reads, k, FailedRead)
        IN /\ local' = [local EXCEPT !.reads = pair]
           /\ IF pc # "fetchingDestinations"
              THEN UNCHANGED <<pc, resp>>
              ELSE IF ~r.ok
              THEN /\ resp' = Append(resp, ErrorResponse(r.message, Fallback(req.op)))
                   /\ pc' = "done"
              ELSE IF ~AllFilled(pair)
              THEN UNCHANGED <<pc, resp>>
              ELSE /\ resp' = Append(resp, Response(200,
                            Arr(EnrichedCities(Unwrap(pair[1]).v, Unwrap(pair[2]).v))))
                   /\ pc' = "done"
    /\ UNCHANGED <<req, validation, seen, tasks, values, calls, store>>

-----------------------------------------------------------------------------

Requests ==
    {[op |-> "validate", segments |-> Arr(<<s>>)] : s \in SegmentValues}
    \cup {[op |-> "create", itinerary |-> it, segments |-> segs] :
            it \in {Undefined, Null, Itinerary},
            segs \in {Undefined, Str(<<"none">>)}
                     \cup {Arr(l) : l \in SeqsUpTo(RequestSegmentValues, MaxSegments)}}
    \cup {[op |-> o, id |-> ItineraryId] : o \in {"quotes", "fetch"}}
    \cup {[op |-> "destinations"]}

RequestsOf(op) == {r \in Requests : r.op = op}

\* The state a request is received in.
Received(r) ==
    /\ req = r
    /\ pc = "received"
    /\ validation = <<>>
    /\ seen = <<>>
    /\ tasks = <<>>
    /\ values = <<>>
    /\ local = [createdItinerary |-> Undefined, itinerary |-> Undefined,
                segments |-> <<>>, reads |-> <<>>]
    /\ calls = [k \in CallKinds |-> 0]
    /\ store = [itineraries |-> <<>>, segments |-> <<>>]
    /\ resp = <<>>

Init == \E r \in Requests : Received(r)

Next ==
    \/ ValidateSegmentCall
    \/ CreateReceived
    \/ \E i \in 1..MaxSegments : CityReadDone(i)
    \/ \E i \in 1..MaxSegments : LodgingReadDone(i)
    \/ ItineraryWriteDone
    \/ \E i \in 1..MaxSegments : SegmentWriteDone(i)
    \/ QuotesReceived
    \/ SegmentListDone
    \/ \E i \in 1..MaxSegments, k \in 1..2 : SegmentReadDone(i, k)
    \/ FetchReceived
    \/ \E k \in 1..2 : OuterReadDone(k)
    \/ DestinationsReceived
    \/ \E k \in 1..2 : PageReadDone(k)

\* Every route and the direct calls of validateSegment.
Spec == Init /\ [][Next]_vars

\* validateSegment alone, on every segment value.
InitValidate == \E r \in RequestsOf("validate") : Received(r)

NextValidate ==
    \/ ValidateSegmentCall
    \/ \E i \in 1..MaxSegments : CityReadDone(i)
    \/ \E i \in 1..MaxSegments : LodgingReadDone(i)

SpecValidate == InitValidate /\ [][NextValidate]_vars

\* POST /composite/itineraries alone.
InitCreate == \E r \in RequestsOf("create") : Received(r)

NextCreate ==
    \/ CreateReceived
    \/ \E i \in 1..MaxSegments : CityReadDone(i)
    \/ \E i \in 1..MaxSegments : LodgingReadDone(i)
    \/ ItineraryWriteDone
    \/ \E i \in 1..MaxSegments : SegmentWriteDone(i)

SpecCreate == InitCreate /\ [][NextCreate]_vars

\* GET /composite/quotes/:itinerary_id alone.
InitQuotes == \E r \in RequestsOf("quotes") : Received(r)

NextQuotes ==
    \/ QuotesReceived
    \/ SegmentListDone
    \/ \E i \in 1..MaxSegments, k \in 1..2 : SegmentReadDone(i, k)

SpecQuotes == InitQuotes /\ [][NextQuotes]_vars

\* GET /composite/itineraries/:id alone.
InitFetch == \E r \in RequestsOf("fetch") : Received(r)

NextFetch ==
    \/ FetchReceived
    \/ \E k \in 1..2 : OuterReadDone(k)
    \/ \E i \in 1..MaxSegments, k \in 1..2 : SegmentReadDone(i, k)

SpecFetch == InitFetch /\ [][NextFetch]_vars

\* GET /composite/destinations alone.
InitDestinations == \E r \in RequestsOf("destinations") : Received(r)

NextDestinations ==
    \/ DestinationsReceived
    \/ \E k \in 1..2 : PageReadDone(k)

SpecDestinations == InitDestinations /\ [][NextDestinations]_vars

-----------------------------------------------------------------------------
(* validateLodgingClass called on its own, against every list of classes *)

\* The longest list of lodging classes the pricing service holds.
MaxClasses == 3

\* A class as the pricing service lists it: the bare name, or {class_name}.
ClassValues ==
    {Str(Standard), ClassObj(Standard), Str(Penthouse), ClassObj(Penthouse)}

InitLodgingClass ==
    \E name \in {Standard, Penthouse}, classes \in SeqsUpTo(ClassValues, MaxClasses) :
        /\ req = [op |-> "validateLodgingClass", lodgingClass |-> name]
        /\ pc = "received"
        /\ validation = <<>>
        /\ seen = <<>>
        /\ tasks = <<>>
        /\ values = <<>>
        /\ local = [createdItinerary |-> Undefined, itinerary |-> Undefined,
                    segments |-> <<>>, reads |-> <<>>]
        /\ calls = [k \in CallKinds |-> 0]
        /\ store = [itineraries |-> <<>>, segments |-> <<>>, classes |-> classes]
        /\ resp = <<>>

\* Lines 33-35 up to the await.
ValidateLodgingClassCall ==
    /\ pc = "received"
    /\ req.op = "validateLodgingClass"
    /\ calls' = Issue(calls, "GET /lodging-classes", 1)
    /\ pc' = "called"
    /\ UNCHANGED <<req, validation, seen, tasks, values, local, store, resp>>

\* The read of line 35 completes with the list the service holds, or fails;
\* lines 36-46.
LodgingClassesReadDone ==
    /\ pc = "called"
    /\ req.op = "validateLodgingClass"
    /\ \E reply \in {ReplyOk(Arr(store.classes)), ReplyStatus(500)} :
        /\ values' = <<ValidateLodgingClass(req.lodgingClass, reply)>>
        /\ local' = [local EXCEPT !.reads = <<reply>>]
    /\ pc' = "done"
    /\ UNCHANGED <<req, validation, seen, tasks, calls, store, resp>>

NextLodgingClass ==
    \/ ValidateLodgingClassCall
    \/ LodgingClassesReadDone

SpecLodgingClass == InitLodgingClass /\ [][NextLodgingClass]_vars

-----------------------------------------------------------------------------
(* The four routes when every handler runs and every upstream call that was
   issued completes in the end, with a success or a failure *)

\* The requests of the four routes; the segments of a create request are all
\* of one city.
CompositeRequests ==
    {r \in Requests :
        /\ r.op # "validate"
        /\ (r.op = "create" /\ HasSegments(r.segments)) =>
               \A i \in 1..Len(r.segments.v) : r.segments.v[i].city_id = Str(Paris)}

InitComposite == \E r \in CompositeRequests : Received(r)

NextComposite ==
    \/ CreateReceived
    \/ \E i \in 1..MaxSegments : CityReadDone(i)
    \/ \E i \in 1..MaxSegments : LodgingReadDone(i)
    \/ ItineraryWriteDone
    \/ \E i \in 1..MaxSegments : SegmentWriteDone(i)
    \/ QuotesReceived
    \/ SegmentListDone
    \/ \E i \in 1..MaxSegments, k \in 1..2 : SegmentReadDone(i, k)
    \/ FetchReceived
    \/ \E k \in 1..2 : OuterReadDone(k)
    \/ DestinationsReceived
    \/ \E k \in 1..2 : PageReadDone(k)

\* Express runs the handler of a request it has received, and each call in
\* flight completes.
EveryCallCompletes ==
    /\ WF_vars(CreateReceived) /\ WF_vars(QuotesReceived)
    /\ WF_vars(FetchReceived) /\ WF_vars(DestinationsReceived)
    /\ \A i \in 1..MaxSegments : WF_vars(CityReadDone(i))
    /\ \A i \in 1..MaxSegments : WF_vars(LodgingReadDone(i))
    /\ WF_vars(ItineraryWriteDone)
    /\ \A i \in 1..MaxSegments : WF_vars(SegmentWriteDone(i))
    /\ WF_vars(SegmentListDone)
    /\ \A i \in 1..MaxSegments, k \in 1..2 : WF_vars(SegmentReadDone(i, k))
    /\ \A k \in 1..2 : WF_vars(OuterReadDone(k))
    /\ \A k \in 1..2 : WF_vars(PageReadDone(k))

SpecComposite == InitComposite /\ [][NextComposite]_vars /\ EveryCallCompletes

-----------------------------------------------------------------------------
(* Properties of POST /composite/itineraries *)

Range(f) == {f[i] : i \in DOMAIN f}

IsCreate == req.op = "create"

Writes == calls["POST /itineraries"] + calls["POST /itineraries/:id/segments"]

TotalCalls ==
    LET RECURSIVE Sum(_)
        Sum(K) == IF K = {} THEN 0
                  ELSE LET k == CHOOSE x \in K : TRUE IN calls[k] + Sum(K \ {k})
    IN Sum(CallKinds)

\* Some segment's validation has returned an invalid result.
SomeValidationInvalid ==
    \E i \in DOMAIN validation : validation[i].pc = "resolved" /\ ~validation[i].valid

SomeValidationRejected == \E i \in DOMAIN validation : validation[i].pc = "rejected"

AllValidationsResolved == \A i \in DOMAIN validation : validation[i].pc = "resolved"

\* C1 as stated: a create request with a segment that fails validation is
\* answered 400 and issues no write to the itineraries service.
C1_InvalidSegmentGets400 ==
    (IsCreate /\ pc = "done" /\ SomeValidationInvalid)
        => (resp[1].status = 400 /\ Writes = 0)

\* C1, amended: a create request with a segment that fails validation never
\* issues a write; it is answered 400 when every validation returned, and 500
\* when the validation of some segment threw.  The itinerary write is issued
\* only when no segments were supplied or every validation returned valid.
C1_NoWriteUnlessAllValid ==
    IsCreate =>
        /\ SomeValidationInvalid => Writes = 0
        /\ (pc = "done" /\ SomeValidationInvalid) =>
               /\ Len(resp) = 1
               /\ \/ resp[1].status = 400 /\ AllValidationsResolved
                  \/ resp[1].status = 500 /\ SomeValidationRejected
        /\ Writes > 0 =>
               \/ ~HasSegments(req.segments)
               \/ \A i \in DOMAIN validation :
                      validation[i].pc = "resolved" /\ validation[i].valid

\* A request of one valid and one invalid segment was answered 400.
C1_Witness ==
    /\ IsCreate /\ pc = "done" /\ Len(resp) = 1 /\ resp[1].status = 400
    /\ Len(validation) = 2
    /\ validation[1].pc = "resolved" /\ validation[1].valid
    /\ validation[2].pc = "resolved" /\ ~validation[2].valid
    /\ Writes = 0

\* C2: a 201 carries one created segment per supplied segment, the i-th being
\* the result of the write of the i-th supplied segment, whatever the order
\* the writes completed in.
C2_CreatedSegmentsInInputOrder ==
    (IsCreate /\ Len(resp) > 0 /\ resp[1].status = 201) =>
        IF HasSegments(req.segments)
        THEN /\ Len(resp[1].body.segments) = Len(SegmentsOf(req))
             /\ \A i \in 1..Len(SegmentsOf(req)) :
                    /\ resp[1].body.segments[i] = tasks[i].value
                    /\ resp[1].body.segments[i].segment = SegmentsOf(req)[i]
                    /\ resp[1].body.segments[i] \in Range(store.segments)
        ELSE resp[1].body.segments = <<>>

\* Two different segments were created, the second one first, and answered.
C2_Witness ==
    /\ IsCreate /\ Len(resp) = 1 /\ resp[1].status = 201
    /\ HasSegments(req.segments) /\ Len(SegmentsOf(req)) = 2
    /\ SegmentsOf(req)[1] # SegmentsOf(req)[2]
    /\ Len(store.segments) = 2
    /\ store.segments[1].segment = SegmentsOf(req)[2]

\* C3: the details of a failed validation hold one entry per invalid segment
\* and none for a valid one, each with the segment's own index and its whole
\* error list, in ascending index.
C3_DetailsPerInvalidSegment ==
    (IsCreate /\ Len(resp) > 0 /\ resp[1].status = 400 /\ HasSegments(req.segments)
        /\ req.itinerary.t = "object") =>
        LET d == resp[1].body.details
            invalid == {i \in DOMAIN validation : ~validation[i].valid}
        IN /\ AllValidationsResolved
           /\ Len(d) = Cardinality(invalid)
           /\ {d[k].segment_index + 1 : k \in DOMAIN d} = invalid
           /\ \A k \in DOMAIN d :
                  /\ d[k].segment_index + 1 \in DOMAIN validation
                  /\ d[k].errors = validation[d[k].segment_index + 1].errors
                  /\ d[k].errors # <<>>
           /\ \A k, l \in DOMAIN d : k < l => d[k].segment_index < d[l].segment_index

\* A valid first segment and an invalid second one: the only entry has index 1.
C3_Witness ==
    /\ IsCreate /\ Len(resp) = 1 /\ resp[1].status = 400
    /\ Len(validation) = 2
    /\ validation[1].valid /\ ~validation[2].valid
    /\ Len(validation[2].errors) = 2
    /\ Len(resp[1].body.details) = 1

-----------------------------------------------------------------------------
(* Properties of the validation helpers *)

CityError(cityId) == <<"City with ID '">> \o cityId \o <<"' does not exist">>

\* C4: validateSegment reports the city as not existing only when the read
\* was refused with a not-found status; every other failure of the read makes
\* the invocation throw.
C4_OnlyNotFoundIsInvalid ==
    \A i \in DOMAIN validation :
        /\ (/\ SegmentsOf(req)[i].city_id.t = "string"
            /\ CityError(SegmentsOf(req)[i].city_id.v) \in Range(validation[i].errors))
               => seen[i].city = "404"
        /\ seen[i].city \in {"500", "network", "malformed"}
               => validation[i].pc = "rejected"

DateError == <<"end_date must be after start_date">>

\* The pairs of the date strings drawn here with the end not after the start.
EndNotAfterStart(segment) ==
    /\ segment.start_date.t = "string" /\ segment.end_date.t = "string"
    /\ <<segment.start_date.v, segment.end_date.v>>
           \in {<<Jan01, Jan01>>, <<Jan04, Jan04>>, <<Jan04, Jan01>>}

\* C5: the result of validating a segment whose end_date is not after its
\* start_date holds the date-ordering error, whatever the other fields are
\* and whatever their checks found.
C5_DateOrderingError ==
    \A i \in DOMAIN validation :
        (validation[i].pc = "resolved" /\ EndNotAfterStart(SegmentsOf(req)[i]))
            => /\ DateError \in Range(validation[i].errors)
               /\ ~validation[i].valid

\* Equal dates on a segment whose city and lodging class both passed.
C5_Witness ==
    /\ req.op = "validate"
    /\ validation # <<>> /\ validation[1].pc = "resolved"
    /\ SegmentsOf(req)[1].start_date = Str(Jan04)
    /\ SegmentsOf(req)[1].end_date = Str(Jan04)
    /\ seen[1].city = "ok" /\ seen[1].lodging = "listed"
    /\ validation[1].errors = <<DateError>>

LodgingError(lodgingClass) ==
    <<"Lodging class '">> \o lodgingClass \o <<"' does not exist">>

\* C6: a result holds every error that applies: one per missing field, the
\* city error after a not-found, the lodging error when the class is not
\* listed, the date error; and valid is true exactly when there is none.
C6_AllErrorsAccumulated ==
    \A i \in DOMAIN validation :
        validation[i].pc = "resolved" =>
            LET segment == SegmentsOf(req)[i]
                errors == Range(validation[i].errors)
            IN /\ seen[i].city = "404" => CityError(segment.city_id.v) \in errors
               /\ seen[i].lodging = "unlisted"
                      => LodgingError(segment.lodging_class.v) \in errors
               /\ EndNotAfterStart(segment) => DateError \in errors
               /\ segment.city_id \in {Undefined, Str(<<>>)}
                      => <<"Segment missing city_id">> \in errors
               /\ segment.lodging_class = Undefined
                      => <<"Segment missing lodging_class">> \in errors
               /\ segment.start_date = Undefined
                      => <<"Segment missing start_date">> \in errors
               /\ segment.end_date = Undefined
                      => <<"Segment missing end_date">> \in errors
               /\ validation[i].valid <=> validation[i].errors = <<>>
               /\ (/\ seen[i].city \in {"ok", "none"} /\ Truthy(segment.city_id)
                   /\ seen[i].lodging = "listed"
                   /\ <<segment.start_date, segment.end_date>> = <<Str(Jan01), Str(Jan04)>>)
                      => validation[i].valid

\* A city not found, a class not listed and an end before the start: three
\* errors, in the order of the checks.
C6_Witness ==
    /\ req.op = "validate"
    /\ validation # <<>> /\ validation[1].pc = "resolved"
    /\ seen[1] = [city |-> "404", lodging |-> "unlisted"]
    /\ SegmentsOf(req)[1] = Segment(Str(Paris), Str(Penthouse), Str(Jan04), Str(Jan01))
    /\ validation[1].errors = <<CityError(Paris), LodgingError(Penthouse), DateError>>
    /\ ~validation[1].valid

-----------------------------------------------------------------------------
(* Properties of the failures of upstream calls *)

SegmentWriteFailed ==
    IsCreate /\ \E i \in DOMAIN tasks : tasks[i].st = "rejected"

\* C7: once a segment write has failed, the request is answered 500, once;
\* no call other than the reads of the validation, the itinerary write and
\* the segment writes is ever issued; and the itinerary and every segment
\* whose write succeeded are still held by the itineraries service.
C7_NoRollback ==
    SegmentWriteFailed =>
        /\ Len(resp) = 1 /\ resp[1].status = 500
        /\ calls["DELETE"] = 0
        /\ calls["POST /itineraries"] = 1
        /\ calls["POST /itineraries/:id/segments"] = Len(SegmentsOf(req))
        /\ TotalCalls = calls["GET /cities/:id"] + calls["GET /lodging-classes"]
                            + 1 + Len(SegmentsOf(req))
        /\ store.itineraries = <<local.createdItinerary>>
        /\ \A i \in DOMAIN tasks :
               tasks[i].st = "fulfilled" => tasks[i].value \in Range(store.segments)

\* The first segment write failed, the second succeeded afterwards.
C7_Witness ==
    /\ IsCreate /\ Len(tasks) = 2
    /\ tasks[1].st = "rejected" /\ tasks[2].st = "fulfilled"
    /\ Len(resp) = 1 /\ resp[1].status = 500
    /\ Len(store.itineraries) = 1 /\ Len(store.segments) = 1

\* Some upstream call of the request has failed, other than a city read of
\* the validation refused with a not-found status.
UpstreamFailureSeen ==
    \/ \E i \in DOMAIN seen :
          \/ seen[i].city \in {"500", "network", "malformed"}
          \/ seen[i].lodging \in {"404", "500", "network", "malformed", "no list"}
    \/ \E i \in DOMAIN tasks :
          \/ tasks[i].st = "rejected"
          \/ req.op \in {"quotes", "fetch"} /\ FailedRead \in Range(tasks[i].pair)
    \/ FailedRead \in Range(local.reads)
    \/ /\ IsCreate /\ pc = "done" /\ calls["POST /itineraries"] = 1
       /\ local.createdItinerary = Undefined

\* C8: in each of the four routes, once an upstream call has failed the
\* client has exactly one response, a 500, whatever completes afterwards.
C8_FailureGets500 ==
    (req.op # "validate" /\ UpstreamFailureSeen)
        => (Len(resp) = 1 /\ resp[1].status = 500)

-----------------------------------------------------------------------------
(* Properties of the early returns *)

\* C9: the quote of an itinerary whose segment list is empty is
\* {total: 0, segments: []}, and the read of that list is the only upstream
\* call of the request.
C9_EmptyItineraryQuote ==
    (req.op = "quotes" /\ Len(resp) > 0 /\ resp[1].status = 200
        /\ local.reads = <<Arr(<<>>)>>) =>
        /\ Len(resp) = 1
        /\ resp[1].body = [total |-> 0, segments |-> <<>>]
        /\ calls = [k \in CallKinds |->
                        IF k = "GET /itineraries/:id/segments" THEN 1 ELSE 0]

C9_Witness ==
    /\ req.op = "quotes" /\ pc = "done"
    /\ local.reads = <<Arr(<<>>)>>
    /\ Len(resp) = 1 /\ resp[1].status = 200
    /\ resp[1].body.total = 0

\* C10: a create request whose itinerary is absent (or null) is answered 400
\* as soon as it is handled, and never causes an upstream call, whatever its
\* segments are.
C10_MissingItinerary ==
    (IsCreate /\ req.itinerary.t \in {"undefined", "null"}) =>
        /\ TotalCalls = 0
        /\ pc \in {"received", "done"}
        /\ pc = "done" =>
               resp = <<Response(400, [error |-> <<"Missing itinerary data">>])>>

\* No itinerary but two segments, answered.
C10_Witness ==
    /\ IsCreate /\ req.itinerary = Undefined
    /\ HasSegments(req.segments) /\ Len(SegmentsOf(req)) = 2
    /\ pc = "done" /\ Len(resp) = 1 /\ resp[1].status = 400

-----------------------------------------------------------------------------
(* Properties of GET /composite/itineraries/:id *)

\* Both reads of the outer join of lines 97-100 have been fulfilled.
OuterPairSucceeded ==
    /\ Len(local.reads) = 2
    /\ local.reads[1] = StoredItinerary
    /\ local.reads[2].t = "array"

\* C11: a fetch answered 200 for an itinerary of N segments has issued one
\* itinerary read, one segment-list read, N city reads and N rates reads, and
\* nothing else (2 + 2N calls); and a city read or a rates read has been
\* issued only once both reads of the outer pair have succeeded.
C11_FetchIssuesTwoPlusTwoN ==
    req.op = "fetch" =>
        /\ (Len(resp) > 0 /\ resp[1].status = 200) =>
               LET N == Len(local.segments)
               IN /\ local.reads[2] = Arr(local.segments)
                  /\ calls = [k \in CallKinds |->
                        IF k \in {"GET /itineraries/:id", "GET /itineraries/:id/segments"}
                        THEN 1
                        ELSE IF k \in {"GET /cities/:id", "GET /rates"} THEN N
                        ELSE 0]
                  /\ TotalCalls = 2 + 2 * N
        /\ (calls["GET /cities/:id"] > 0 \/ calls["GET /rates"] > 0)
               => OuterPairSucceeded
        /\ ~OuterPairSucceeded => TotalCalls <= 2

\* An itinerary of two segments was fetched and answered: six calls.
C11_Witness ==
    /\ req.op = "fetch" /\ pc = "done"
    /\ Len(resp) = 1 /\ resp[1].status = 200
    /\ Len(local.segments) = 2
    /\ TotalCalls = 6

-----------------------------------------------------------------------------
(* Properties of validateLodgingClass and validateSegment *)

\* The name an element of a list of classes stands for.
ClassName(lc) == IF lc.t = "string" THEN lc.v ELSE lc.class_name.v

\* The lists naming the same classes in the same places, each element in
\* either representation.
SameClasses(l1, l2) ==
    /\ Len(l1) = Len(l2)
    /\ \A i \in 1..Len(l1) : ClassName(l1[i]) = ClassName(l2[i])

\* C12: validateLodgingClass on a list of bare names and {class_name}
\* objects returns valid exactly when some element is the name as a bare
\* string or has it as class_name, and returns the same on every list that
\* names the same classes in the other representation.
C12_EitherRepresentation ==
    (/\ req.op = "validateLodgingClass" /\ pc = "done"
     /\ local.reads = <<ReplyOk(Arr(store.classes))>>) =>
        LET name == req.lodgingClass
            classes == store.classes
        IN /\ values[1].ok
           /\ values[1].value.valid <=>
                  \E i \in 1..Len(classes) :
                      \/ classes[i] = Str(name)
                      \/ classes[i].t = "object" /\ classes[i].class_name = Str(name)
           /\ ~values[1].value.valid => values[1].value.error = LodgingError(name)
           /\ \A other \in SeqsUpTo(ClassValues, MaxClasses) :
                  SameClasses(classes, other) =>
                      ValidateLodgingClass(name, ReplyOk(Arr(other))) = values[1]

\* The name is listed only as an object, after another name as a string.
C12_Witness ==
    /\ req.op = "validateLodgingClass" /\ pc = "done"
    /\ req.lodgingClass = Standard
    /\ store.classes = <<Str(Penthouse), ClassObj(Standard)>>
    /\ local.reads = <<ReplyOk(Arr(store.classes))>>
    /\ values[1].ok /\ values[1].value.valid

\* A segment with none of the four fields.
NoField == Segment(Undefined, Undefined, Undefined, Undefined)

\* C13: validateSegment on a segment missing its four fields returns, with
\* no upstream call, an invalid result of exactly the four missing-field
\* errors; and on any segment the city read is issued only when city_id is
\* there and the lodging-classes read only when lodging_class is there, each
\* at most once.
C13_MissingFieldsNoCalls ==
    (req.op = "validate" /\ pc # "received") =>
        LET segment == SegmentsOf(req)[1]
        IN /\ segment = NoField =>
                  /\ validation[1] = ValidationResult(
                         << <<"Segment missing city_id">>,
                            <<"Segment missing lodging_class">>,
                            <<"Segment missing start_date">>,
                            <<"Segment missing end_date">> >>)
                  /\ ~validation[1].valid /\ Len(validation[1].errors) = 4
                  /\ TotalCalls = 0
           /\ calls["GET /cities/:id"] =
                  (IF Truthy(segment.city_id) THEN 1 ELSE 0)
           /\ calls["GET /lodging-classes"] > 0 =>
                  /\ Truthy(segment.lodging_class)
                  /\ calls["GET /lodging-classes"] = 1
           /\ seen[1].city # "none" => Truthy(segment.city_id)
           /\ seen[1].lodging # "none" => Truthy(segment.lodging_class)
           /\ TotalCalls = calls["GET /cities/:id"] + calls["GET /lodging-classes"]

\* validateSegment has returned on the segment with no field.
C13_Witness ==
    /\ req.op = "validate" /\ pc = "called"
    /\ SegmentsOf(req)[1] = NoField
    /\ validation[1].pc = "resolved" /\ Len(validation[1].errors) = 4
    /\ TotalCalls = 0

-----------------------------------------------------------------------------
(* Properties of GET /composite/quotes/:itinerary_id *)

IsQuotes == req.op = "quotes"

\* The segments whose quote has been computed.
Quoted == {i \in DOMAIN values : IsQuotes /\ values[i] # Hole}

\* The rates the read of segment i returned.
RatesOf(i) == tasks[i].pair[2]

\* The prices the pricing service sends, in hundredths.
Hundredths(price) ==
    CASE price = Price100 -> 10000
      [] price = Price89 -> 8950

\* C14: the quote of a segment whose rates read returned an empty list has
\* price_per_night 0 and total 0, and that segment's computation has not
\* failed; the quote of a segment whose rates read returned a non-empty list
\* has the price of the first rate of the list.  A request all of whose
\* reads succeeded is answered 200 with these quotes.
C14_EmptyRatesPriceZero ==
    IsQuotes =>
        /\ \A i \in DOMAIN tasks :
               (tasks[i].pair[1] = CityBody /\ RatesOf(i).t = "array")
                   => (i \in Quoted /\ tasks[i].st = "fulfilled")
        /\ \A i \in Quoted :
               /\ RatesOf(i) = Arr(<<>>) =>
                      values[i].price_per_night = 0 /\ values[i].total = 0
               /\ (RatesOf(i).t = "array" /\ RatesOf(i).v # <<>>) =>
                      values[i].price_per_night
                          = Hundredths(RatesOf(i).v[1].price_per_night)
        /\ (pc = "done" /\ tasks # <<>> /\ Quoted = DOMAIN tasks) =>
               /\ Len(resp) = 1 /\ resp[1].status = 200
               /\ resp[1].body.segments = values

\* Two three-night segments answered: no rate for the first, two rates for
\* the second, the dearer one last.
C14_Witness ==
    /\ IsQuotes /\ pc = "done" /\ Len(resp) = 1 /\ resp[1].status = 200
    /\ Len(tasks) = 2
    /\ local.segments[2].end_date = Str(Jan04) /\ local.segments[2].start_date = Str(Jan01)
    /\ RatesOf(1) = Arr(<<>>)
    /\ RatesOf(2) = Arr(<<Rate(Price89), Rate(Price100)>>)
    /\ resp[1].body.segments[1].price_per_night = 0
    /\ resp[1].body.segments[1].total = 0
    /\ resp[1].body.segments[2].price_per_night = 8950
    /\ resp[1].body.segments[2].total = 26850

\* The whole days from the start to the end of a stored segment, a started
\* day counting as one.
WholeDaysRoundedUp(segment) ==
    CASE <<segment.start_date.v, segment.end_date.v>> = <<Jan01, Jan04>> -> 3
      [] <<segment.start_date.v, segment.end_date.v>> = <<Jan04, Jan04Noon>> -> 1

RECURSIVE TotalOf(_)
TotalOf(quotes) ==
    IF quotes = <<>> THEN 0 ELSE Head(quotes).total + TotalOf(Tail(quotes))

\* C15: every segment quote has the nights of its segment, the whole days
\* from start_date to end_date rounded up, and total = price_per_night x
\* nights; a 200 for a non-empty segment list carries one quote per fetched
\* segment in the order of the fetched list, and its total is the sum of the
\* totals of these quotes.  2024-01-01 to 2024-01-04 at "100.00" gives
\* nights 3, price_per_night 100 and total 300 (10000 and 30000 hundredths).
C15_NightsTotalsOrder ==
    IsQuotes =>
        /\ \A i \in Quoted :
               /\ values[i].nights = WholeDaysRoundedUp(local.segments[i])
               /\ values[i].total = values[i].price_per_night * values[i].nights
               /\ values[i].segment_id = local.segments[i].id
               /\ (/\ local.segments[i].start_date = Str(Jan01)
                   /\ local.segments[i].end_date = Str(Jan04)
                   /\ RatesOf(i).t = "array" /\ RatesOf(i).v # <<>>
                   /\ RatesOf(i).v[1] = Rate(Price100)) =>
                      /\ values[i].nights = 3
                      /\ values[i].price_per_night = 10000
                      /\ values[i].total = 30000
        /\ (Len(resp) > 0 /\ resp[1].status = 200 /\ local.segments # <<>>) =>
               LET quotes == resp[1].body.segments
               IN /\ local.reads = <<Arr(local.segments)>>
                  /\ Len(quotes) = Len(local.segments)
                  /\ \A k \in DOMAIN quotes :
                         /\ quotes[k].segment_id = local.segments[k].id
                         /\ quotes[k] = values[k]
                  /\ resp[1].body.total = TotalOf(quotes)

\* The half-day segment first, then the three-night one at "100.00".
C15_Witness ==
    /\ IsQuotes /\ pc = "done" /\ Len(resp) = 1 /\ resp[1].status = 200
    /\ Len(local.segments) = 2
    /\ local.segments[1].id = <<"seg-", "2">> /\ local.segments[2].id = <<"seg-", "1">>
    /\ RatesOf(1) = Arr(<<Rate(Price89), Rate(Price100)>>)
    /\ RatesOf(2) = Arr(<<Rate(Price100)>>)
    /\ resp[1].body.segments[1].nights = 1
    /\ resp[1].body.segments[1].total = 8950
    /\ resp[1].body.segments[2].nights = 3
    /\ resp[1].body.segments[2].total = 30000
    /\ resp[1].body.total = 38950

-----------------------------------------------------------------------------
(* Properties of GET /composite/destinations *)

\* The list the k-th read of the request returned, sent bare or in {data}.
Fetched(k) ==
    IF local.reads[k].t = "array" THEN local.reads[k].v ELSE local.reads[k].data.v

\* The seasons of a list that belong to a city, in the order of the list.
SeasonsIn(seasons, id) ==
    LET OfCity(season) == season.city_id = id
    IN SelectSeq(seasons, OfCity)

\* C16: a 200 of the destinations route carries the fetched cities, all of
\* them and in the fetched order, each with exactly the fetched seasons of
\* its id in the order of the fetched season list, an empty list when it has
\* none; whether each of the two replies was a bare list or a {data} wrapper.
C16_CitiesWithTheirSeasons ==
    (req.op = "destinations" /\ Len(resp) > 0 /\ resp[1].status = 200) =>
        LET cities == Fetched(1)
            seasons == Fetched(2)
            body == resp[1].body.v
        IN /\ Len(resp) = 1
           /\ resp[1].body.t = "array"
           /\ Len(body) = Len(cities)
           /\ \A i \in 1..Len(cities) :
                  /\ body[i].city = cities[i]
                  /\ body[i].seasons = SeasonsIn(seasons, cities[i].id)
                  /\ (\A k \in 1..Len(seasons) : seasons[k].city_id # cities[i].id)
                         => body[i].seasons = <<>>
                  /\ \A k \in 1..Len(seasons) :
                         seasons[k].city_id = cities[i].id
                             => \E j \in 1..Len(body[i].seasons) :
                                    body[i].seasons[j] = seasons[k]

\* Cities c2, c1 in a wrapper and seasons s2, s1 of c1 sent bare: c2 gets no
\* season and c1 gets s2, s1.
C16_Witness ==
    /\ req.op = "destinations" /\ pc = "done"
    /\ Len(resp) = 1 /\ resp[1].status = 200
    /\ local.reads[1] = [t |-> "object",
                         data |-> Arr(<<City(<<"c", "2">>), City(<<"c", "1">>)>>)]
    /\ local.reads[2] = Arr(<<Season(<<"s", "2">>, <<"c", "1">>),
                              Season(<<"s", "1">>, <<"c", "1">>)>>)
    /\ resp[1].body.v[1].seasons = <<>>
    /\ resp[1].body.v[2].seasons = <<Season(<<"s", "2">>, <<"c", "1">>),
                                   Season(<<"s", "1">>, <<"c", "1">>)>>

-----------------------------------------------------------------------------
(* Properties of the upstream calls in flight *)

\* The upstream calls of the request that have completed, with a success or
\* a failure: the reads of the validations, the itinerary write, the segment
\* writes or the reads of the per-segment joins, and the reads of the
\* handler's own join.
CompletedCalls ==
    Cardinality({i \in DOMAIN seen : seen[i].city # "none"})
    + Cardinality({i \in DOMAIN seen : seen[i].lodging # "none"})
    + (IF calls["POST /itineraries"] = 1 /\ pc # "creatingItinerary" THEN 1 ELSE 0)
    + (IF IsCreate
       THEN Cardinality({i \in DOMAIN tasks : tasks[i].st # "pending"})
       ELSE Cardinality({ik \in (DOMAIN tasks) \X {1, 2} :
                            tasks[ik[1]].pair[ik[2]] # Hole}))
    + Cardinality({k \in DOMAIN local.reads : local.reads[k] # Hole})

\* The upstream calls issued and not yet completed.
InFlight == TotalCalls - CompletedCalls

\* The handler is suspended in a fan-out over the segments.
InFanOut == pc \in {"validating", "creatingSegments", "enriching"}

\* The number of segments the fan-out runs over.
FanOutLength == IF IsCreate THEN Len(SegmentsOf(req)) ELSE Len(local.segments)

\* C17 as stated: at no point of a per-segment fan-out over N segments are
\* more than N upstream calls in flight.
C17_AtMostNInFlight == InFanOut => InFlight <= FanOutLength

\* C17, amended: during the validation and during the creation of N segments
\* at most N upstream calls are in flight, one per segment; during the
\* enrichment and the quoting of N segments at most 2N are, the city read and
\* the rates read of every segment, all 2N started together and each in
\* flight until it completes.
C17_InFlightBound ==
    /\ InFlight >= 0
    /\ pc \in {"validating", "creatingSegments"} => InFlight <= FanOutLength
    /\ pc = "enriching" =>
           /\ InFlight <= 2 * FanOutLength
           /\ InFlight = Cardinality({ik \in (DOMAIN tasks) \X {1, 2} :
                                         tasks[ik[1]].pair[ik[2]] = Hole})
           /\ calls["GET /cities/:id"] = FanOutLength
           /\ calls["GET /rates"] = FanOutLength

\* The enrichment of two segments with its four reads in flight.
C17_Witness ==
    /\ req.op = "fetch" /\ pc = "enriching"
    /\ Len(local.segments) = 2
    /\ InFlight = 4

\* Some upstream call of the request has thrown into the handler or into
\* the invocation that awaited it.
SomeCallFailed ==
    \/ SomeValidationRejected
    \/ \E i \in DOMAIN tasks :
          \/ tasks[i].st = "rejected"
          \/ ~IsCreate /\ FailedRead \in Range(tasks[i].pair)
    \/ FailedRead \in Range(local.reads)
    \/ /\ IsCreate /\ pc = "done" /\ calls["POST /itineraries"] = 1
       /\ local.createdItinerary = Undefined

\* C18: when every upstream call that is issued completes, the request gets
\* its response, once; and as long as a call is in flight and none has
\* failed there is no response, so that a call that never completes, with no
\* failed sibling, leaves the request unanswered for ever.
C18_RespondsWhenCallsComplete ==
    /\ <>(pc = "done" /\ Len(resp) = 1)
    /\ [](Len(resp) <= 1)
    /\ []((InFlight > 0 /\ ~SomeCallFailed) => resp = <<>>)

\* A fetch of two segments answered when the last of its six calls was in.
C18_Witness ==
    /\ req.op = "fetch" /\ pc = "done"
    /\ Len(resp) = 1 /\ resp[1].status = 200
    /\ Len(local.segments) = 2
    /\ InFlight = 0 /\ CompletedCalls = 6

-----------------------------------------------------------------------------
(* Properties of the order of the writes of POST /composite/itineraries *)

SegmentWrites == calls["POST /itineraries/:id/segments"]

\* The itinerary write was issued and has failed.
ItineraryWriteFailed ==
    /\ IsCreate /\ pc = "done" /\ calls["POST /itineraries"] = 1
    /\ local.createdItinerary = Undefined

\* Segment writes exist only once the itinerary write has returned an
\* itinerary, which the service holds, and each is addressed to its id.
SegmentWritesFollowItinerary ==
    /\ SegmentWrites > 0 =>
           /\ calls["POST /itineraries"] = 1
           /\ store.itineraries = <<local.createdItinerary>>
           /\ SegmentWrites = Len(SegmentsOf(req))
           /\ Len(tasks) = SegmentWrites
           /\ \A i \in DOMAIN tasks :
                  tasks[i].path = <<"/itineraries/">> \o local.createdItinerary.id
                                      \o <<"/segments">>
           /\ \A j \in DOMAIN store.segments :
                  store.segments[j].path
                      = <<"/itineraries/">> \o store.itineraries[1].id \o <<"/segments">>
    /\ pc \in {"received", "validating", "creatingItinerary"} => SegmentWrites = 0
    /\ ItineraryWriteFailed => SegmentWrites = 0 /\ store.segments = <<>>

\* C19 as stated: segment writes follow the successful itinerary write and
\* target its id, none is issued when that write fails, and a request with
\* an itinerary whose segments are absent, empty or no sequence has issued
\* exactly one write and its response carries an empty segments sequence.
C19_OneWriteEmptySegments ==
    IsCreate =>
        /\ SegmentWritesFollowItinerary
        /\ (Truthy(req.itinerary) /\ ~HasSegments(req.segments) /\ pc = "done") =>
               /\ Writes = 1 /\ SegmentWrites = 0
               /\ Len(resp) = 1
               /\ "segments" \in DOMAIN resp[1].body
               /\ resp[1].body.segments = <<>>

\* C19, amended: as above, but the response of a request without segments
\* carries the empty segments sequence when its one write succeeded (a 201),
\* and is a 500 with no segments when that write failed.
C19_WritesInOrder ==
    IsCreate =>
        /\ SegmentWritesFollowItinerary
        /\ (Truthy(req.itinerary) /\ ~HasSegments(req.segments)) =>
               /\ SegmentWrites = 0 /\ TotalCalls = Writes
               /\ pc # "received" => Writes = 1
               /\ pc = "done" =>
                      /\ Len(resp) = 1
                      /\ IF ItineraryWriteFailed
                         THEN /\ resp[1].status = 500
                              /\ "segments" \notin DOMAIN resp[1].body
                         ELSE /\ resp[1].status = 201
                              /\ resp[1].body.segments = <<>>
                              /\ resp[1].body.id = store.itineraries[1].id

\* The two segment writes of a request are in flight, addressed to the
\* itinerary the service has just created.
C19_Witness ==
    /\ IsCreate /\ pc = "creatingSegments"
    /\ SegmentWrites = 2 /\ Len(tasks) = 2
    /\ store.itineraries # <<>>
    /\ tasks[1].path = <<"/itineraries/", "it-", "1", "/segments">>
    /\ tasks[2].path = tasks[1].path
    /\ store.itineraries[1].id = <<"it-", "1">>
====
